---- MODULE Spec2Model ----
(***************************************************************************)
(* The incremental translation core of lingui-po-translate                 *)
(* (src/core/translate-core.ts): one run of translateCore as a state       *)
(* machine over ordered text mappings (TSet).                              *)
(*                                                                         *)
(* A TSet (Map<string, string | null>) is a sequence of [key, val] entries *)
(* with pairwise distinct keys; the sequence order is the Map's insertion  *)
(* (= iteration) order.  Keys are numbered; by symmetry of the code in the *)
(* key names the source mapping lists its keys in ascending number, while  *)
(* the previous target lists its keys in any order.                        *)
(***************************************************************************)
EXTENDS Integers, Sequences, FiniteSets, TLC

\* ---------------------------------------------------------------- bounds
MaxKeys == 2
MaxRuns == 2

Keys == 1..MaxKeys

MaxCommentLen == 5

\* ---------------------------------------------------------------- values
Null == "<null>"
Undefined == "<undefined>"
SrcText == "source text"
OldText == "old translation"
Translated == "fresh translation"
OverrideText == "override text"

SrcValues == {SrcText, Null}
OldValues == {OldText, Null}
Langs == {"de", "zh-Hans"}
SrcLng == "en"

\* a nullable object reference (TSet | null, TServiceInvocation | null)
NullRef == [isNull |-> TRUE, map |-> <<>>]
Ref(m) == [isNull |-> FALSE, map |-> m]

\* JavaScript truthiness of a string | null | undefined
Truthy(v) == v \notin {Undefined, Null, ""}

\* ------------------------------------------------- Map<string, string|null>
Entry(k, v) == [key |-> k, val |-> v]
KeySet(m) == {m[i].key : i \in DOMAIN m}
KeySeq(m) == [i \in DOMAIN m |-> m[i].key]
Has(m, k) == \E i \in DOMAIN m : m[i].key = k
Get(m, k) == IF Has(m, k) THEN m[CHOOSE i \in DOMAIN m : m[i].key = k].val ELSE Undefined
\* Map.set: an existing key keeps its position, a new key goes last
MapSet(m, k, v) ==
  IF Has(m, k)
    THEN [i \in DOMAIN m |-> IF m[i].key = k THEN Entry(k, v) ELSE m[i]]
    ELSE Append(m, Entry(k, v))
\* from.forEach((value, key) => m.set(key, value))
RECURSIVE SetAll(_, _)
SetAll(m, from) ==
  IF from = <<>> THEN m
  ELSE SetAll(MapSet(m, Head(from).key, Head(from).val), Tail(from))

\* ----------------------------------------------------------- tset-ops
leftMinusRight(left, right) ==
  SelectSeq(left, LAMBDA e : ~Has(right, e.key))

selectLeftDistinct(left, right, strategy) ==
  SelectSeq(left, LAMBDA e :
    CASE strategy = "COMPARE_KEYS" -> ~Has(right, e.key)
      [] strategy = "COMPARE_KEYS_AND_NULL_VALUES" ->
           ~Has(right, e.key) \/ Get(right, e.key) = Null
      [] strategy = "COMPARE_VALUES" ->
           Has(right, e.key) /\ Get(right, e.key) # e.val)

RECURSIVE joinOver(_, _, _)
joinOver(srcRest, translateResults, oldTarget) ==
  IF srcRest = <<>> THEN <<>>
  ELSE LET k == Head(srcRest).key
           rest == joinOver(Tail(srcRest), translateResults, oldTarget)
       IN  IF Has(translateResults, k)
             THEN <<Entry(k, Get(translateResults, k))>> \o rest
           ELSE IF Has(oldTarget, k)
             THEN <<Entry(k, Get(oldTarget, k))>> \o rest
           ELSE rest

joinResultsPreserveOrder(translateResults, changeSet, oldTarget, src) ==
  joinOver(src, translateResults, oldTarget)

\* ------------------------------------------------------ comment-parser
hasManualMarking(parsedComment) == Len(parsedComment.manual) > 0

shouldSkipForManual(parsedComment, targetLng) ==
  \E i \in DOMAIN parsedComment.manual : parsedComment.manual[i] = targetLng

\* A comment is a sequence of tokens: the two directive prefixes, text
\* characters, the comma, the blank and the two separators.
Tokens == {"@manual:", "@context:", "a", "b", ",", " ", ";", "\n"}
AtTokens == {"@manual:", "@context:"}
Whitespace == {" ", "\n"}

\* String.prototype.trim
RECURSIVE TrimStart(_)
TrimStart(str) ==
  IF str # <<>> /\ Head(str) \in Whitespace THEN TrimStart(Tail(str)) ELSE str
RECURSIVE TrimEnd(_)
TrimEnd(str) ==
  IF str # <<>> /\ str[Len(str)] \in Whitespace
    THEN TrimEnd(SubSeq(str, 1, Len(str) - 1))
    ELSE str
Trim(str) == TrimEnd(TrimStart(str))

\* String.prototype.split: the pieces between the separators, empty ones too
RECURSIVE Split(_, _)
Split(str, sep) ==
  IF \A i \in DOMAIN str : str[i] # sep
    THEN <<str>>
    ELSE LET first == CHOOSE i \in DOMAIN str :
                        str[i] = sep /\ \A j \in 1..(i - 1) : str[j] # sep
         IN  <<SubSeq(str, 1, first - 1)>> \o Split(SubSeq(str, first + 1, Len(str)), sep)

\* Array.prototype.join
RECURSIVE Join(_, _)
Join(parts, sep) ==
  IF parts = <<>> THEN <<>>
  ELSE IF Len(parts) = 1 THEN parts[1]
  ELSE parts[1] \o <<sep>> \o Join(Tail(parts), sep)

StartsWith(str, prefix) == str # <<>> /\ str[1] = prefix
StartsWithAt(str) == str # <<>> /\ str[1] \in AtTokens

\* langList.split(",").map((lang) => lang.trim()).filter(Boolean)
LangList(langList) ==
  SelectSeq([i \in DOMAIN Split(langList, ",") |-> Trim(Split(langList, ",")[i])],
            LAMBDA lang : lang # <<>>)

\* the loop body with every @manual: fragment added to the list so far
ParseStepAppend(result, part) ==
  IF StartsWith(part, "@manual:")
    THEN LET langList == Trim(Tail(part))
         IN  IF langList # <<>>
               THEN [result EXCEPT !.manual = result.manual \o LangList(langList)]
               ELSE result
  ELSE IF StartsWith(part, "@context:")
    THEN LET contextText == Trim(Tail(part))
         IN  IF contextText # <<>>
               THEN [result EXCEPT !.contextParts = Append(result.contextParts, contextText)]
               ELSE result
  ELSE IF part # <<>> /\ ~StartsWithAt(part)
    THEN [result EXCEPT !.contextParts = Append(result.contextParts, part)]
  ELSE result

\* the loop body of parseExtractedComment for one trimmed line or part
ParseStep(result, part) ==
  IF StartsWith(part, "@manual:")
    THEN LET langList == Trim(Tail(part))
         IN  IF langList # <<>>
               THEN [result EXCEPT !.manual = LangList(langList)]
               ELSE result
  ELSE IF StartsWith(part, "@context:")
    THEN LET contextText == Trim(Tail(part))
         IN  IF contextText # <<>>
               THEN [result EXCEPT !.contextParts = Append(result.contextParts, contextText)]
               ELSE result
  ELSE IF part # <<>> /\ ~StartsWithAt(part)
    THEN [result EXCEPT !.contextParts = Append(result.contextParts, part)]
  ELSE result

RECURSIVE ParseParts(_, _)
ParseParts(result, parts) ==
  IF parts = <<>> THEN result
  ELSE ParseParts(ParseStep(result, Head(parts)), Tail(parts))

EmptyParse == [present |-> TRUE, manual |-> <<>>, contextParts |-> <<>>, context |-> <<>>]

\* parseExtractedComment of file-formats/po/comment-parser.ts: one fragment
\* per line
TrimmedLines(extracted) ==
  [i \in DOMAIN Split(extracted, "\n") |-> Trim(Split(extracted, "\n")[i])]

parseExtractedComment(extracted) ==
  IF extracted = <<>> THEN EmptyParse
  ELSE LET result == ParseParts(EmptyParse, TrimmedLines(extracted))
       IN  [result EXCEPT !.context = Join(result.contextParts, "\n")]

\* parseExtractedComment of core/core-definitions.ts: the lines are split on
\* ";" as well and the empty parts dropped
RECURSIVE PartsOfLines(_)
PartsOfLines(lines) ==
  IF lines = <<>> THEN <<>>
  ELSE LET parts == Split(Head(lines), ";")
       IN  SelectSeq([i \in DOMAIN parts |-> Trim(parts[i])], LAMBDA part : part # <<>>)
             \o PartsOfLines(Tail(lines))

parseExtractedCommentCore(extracted) ==
  IF extracted = <<>> THEN EmptyParse
  ELSE LET result == ParseParts(EmptyParse, PartsOfLines(Split(extracted, "\n")))
       IN  [result EXCEPT !.context = Join(result.contextParts, " ")]

\* ------------------------------------------------------ translate-core
SourceOverrideGet(sourceOverride, lng) ==
  IF lng \in DOMAIN sourceOverride THEN sourceOverride[lng] ELSE Undefined

EmptyFilter ==
  [toTranslate |-> <<>>, toSkip |-> <<>>,
   toCopyOriginal |-> <<>>, toTranslateFromOverride |-> <<>>]

\* routeOf with the override test made before the skip test
routeOfOverrideFirst(parsed, targetLng, overrideSourceLng) ==
  IF ~parsed.present \/ ~hasManualMarking(parsed) THEN "toTranslate"
  ELSE IF Truthy(overrideSourceLng) THEN "toTranslateFromOverride"
  ELSE IF shouldSkipForManual(parsed, targetLng) THEN "toSkip"
  ELSE "toCopyOriginal"

\* the branch of the forEach body a key takes
routeOf(parsed, targetLng, overrideSourceLng) ==
  IF ~parsed.present \/ ~hasManualMarking(parsed) THEN "toTranslate"
  ELSE IF shouldSkipForManual(parsed, targetLng) THEN "toSkip"
  ELSE IF Truthy(overrideSourceLng) THEN "toTranslateFromOverride"
  ELSE "toCopyOriginal"

\* filterByManualMarking without the return that ends the skip branch: a
\* skipped key falls through to the copy / override branch as well
filterByManualMarkingFallThrough(inputs, comments, args) ==
  LET overrideSourceLng == SourceOverrideGet(args.sourceOverride, args.targetLng)
      bucket(name) ==
        SelectSeq(inputs, LAMBDA e :
          routeOf(comments[e.key], args.targetLng, overrideSourceLng) = name)
      skipOr(name) ==
        SelectSeq(inputs, LAMBDA e :
          routeOf(comments[e.key], args.targetLng, overrideSourceLng) \in {name, "toSkip"})
  IN  [toTranslate |-> bucket("toTranslate"),
       toSkip |-> bucket("toSkip"),
       toCopyOriginal |->
         IF Truthy(overrideSourceLng) THEN <<>> ELSE skipOr("toCopyOriginal"),
       toTranslateFromOverride |->
         IF Truthy(overrideSourceLng) THEN skipOr("toTranslateFromOverride") ELSE <<>>]

filterByManualMarking(inputs, comments, args) ==
  LET overrideSourceLng == SourceOverrideGet(args.sourceOverride, args.targetLng)
      bucket(name) ==
        SelectSeq(inputs, LAMBDA e :
          routeOf(comments[e.key], args.targetLng, overrideSourceLng) = name)
  IN  [toTranslate |-> bucket("toTranslate"),
       toSkip |-> bucket("toSkip"),
       toCopyOriginal |-> bucket("toCopyOriginal"),
       toTranslateFromOverride |-> bucket("toTranslateFromOverride")]

\* extractStringsToTranslate that compares keys only
extractStringsToTranslateKeysOnly(args) ==
  IF args.oldTarget.isNull
    THEN args.src
    ELSE selectLeftDistinct(args.src, args.oldTarget.map, "COMPARE_KEYS")

extractStringsToTranslate(args) ==
  IF args.oldTarget.isNull
    THEN args.src
    ELSE selectLeftDistinct(args.src, args.oldTarget.map, "COMPARE_KEYS_AND_NULL_VALUES")

\* extractStaleTranslations with the two mappings exchanged
extractStaleTranslationsSwapped(args) ==
  IF ~args.oldTarget.isNull
    THEN Ref(leftMinusRight(args.src, args.oldTarget.map))
    ELSE NullRef

extractStaleTranslations(args) ==
  IF ~args.oldTarget.isNull
    THEN Ref(leftMinusRight(args.oldTarget.map, args.src))
    ELSE NullRef

EmptyInvocation == [isNull |-> FALSE, inputs |-> <<>>, results |-> <<>>]
NullInvocation == [isNull |-> TRUE, inputs |-> <<>>, results |-> <<>>]
Invocation(inputs, results) == [isNull |-> FALSE, inputs |-> inputs, results |-> results]

\* computeChangeSet whose updated holds every result key the previous target has
computeChangeSetUpdatedByKey(args, serviceInvocation) ==
  LET deleted == extractStaleTranslations(args) IN
  IF serviceInvocation.isNull
    THEN [added |-> <<>>, updated |-> <<>>, skipped |-> <<>>, deleted |-> deleted]
  ELSE LET skipped == selectLeftDistinct(serviceInvocation.inputs,
                                         serviceInvocation.results, "COMPARE_KEYS")
       IN  IF args.oldTarget.isNull
             THEN [added |-> serviceInvocation.results, updated |-> <<>>,
                   skipped |-> skipped, deleted |-> deleted]
             ELSE [added |-> selectLeftDistinct(serviceInvocation.results,
                                                args.oldTarget.map, "COMPARE_KEYS"),
                   updated |-> SelectSeq(serviceInvocation.results,
                                 LAMBDA e : Has(args.oldTarget.map, e.key)),
                   skipped |-> skipped, deleted |-> deleted]

computeChangeSet(args, serviceInvocation) ==
  LET deleted == extractStaleTranslations(args) IN
  IF serviceInvocation.isNull
    THEN [added |-> <<>>, updated |-> <<>>, skipped |-> <<>>, deleted |-> deleted]
  ELSE LET skipped == selectLeftDistinct(serviceInvocation.inputs,
                                         serviceInvocation.results, "COMPARE_KEYS")
       IN  IF args.oldTarget.isNull
             THEN [added |-> serviceInvocation.results, updated |-> <<>>,
                   skipped |-> skipped, deleted |-> deleted]
             ELSE [added |-> selectLeftDistinct(serviceInvocation.results,
                                                args.oldTarget.map, "COMPARE_KEYS"),
                   updated |-> selectLeftDistinct(serviceInvocation.results,
                                                  args.oldTarget.map, "COMPARE_VALUES"),
                   skipped |-> skipped, deleted |-> deleted]

\* computeNewTarget that returns an empty mapping when nothing was invoked
computeNewTargetDropsOld(args, changeSet, serviceInvocation) ==
  IF serviceInvocation.isNull THEN <<>>
  ELSE IF args.oldTarget.isNull THEN serviceInvocation.results
  ELSE joinResultsPreserveOrder(serviceInvocation.results, changeSet,
         leftMinusRight(args.oldTarget.map, changeSet.deleted.map), args.src)

\* computeNewTarget that returns the results alone whenever there is an invocation
computeNewTargetNoJoin(args, changeSet, serviceInvocation) ==
  IF serviceInvocation.isNull
    THEN (IF args.oldTarget.isNull THEN <<>>
          ELSE leftMinusRight(args.oldTarget.map, changeSet.deleted.map))
    ELSE serviceInvocation.results

\* computeNewTarget that does not take the deleted keys out of the previous target
computeNewTargetNoPrune(args, changeSet, serviceInvocation) ==
  IF serviceInvocation.isNull
    THEN (IF args.oldTarget.isNull THEN <<>> ELSE args.oldTarget.map)
  ELSE IF args.oldTarget.isNull
    THEN serviceInvocation.results
  ELSE joinResultsPreserveOrder(serviceInvocation.results, changeSet,
                                args.oldTarget.map, args.src)

computeNewTarget(args, changeSet, serviceInvocation) ==
  LET oldTargetRef ==
        IF ~args.oldTarget.isNull /\ ~changeSet.deleted.isNull
          THEN Ref(leftMinusRight(args.oldTarget.map, changeSet.deleted.map))
          ELSE args.oldTarget
  IN  IF serviceInvocation.isNull
        THEN (IF oldTargetRef.isNull THEN <<>> ELSE oldTargetRef.map)
      ELSE IF oldTargetRef.isNull
        THEN serviceInvocation.results
      ELSE joinResultsPreserveOrder(serviceInvocation.results, changeSet,
                                    oldTargetRef.map, args.src)

\* translateCore lines 236-245 and 283-290: inject (key -> source value) into
\* inputs and results, creating the invocation when there is none yet
injectOriginal(serviceInvocation, bucket) ==
  LET base == IF serviceInvocation.isNull THEN EmptyInvocation ELSE serviceInvocation
  IN  Invocation(SetAll(base.inputs, bucket), SetAll(base.results, bucket))

\* copyOriginal without the creation of a missing invocation
copyOriginalNoInit(serviceInvocation, toCopyOriginal) ==
  IF Len(toCopyOriginal) > 0 /\ ~serviceInvocation.isNull
    THEN injectOriginal(serviceInvocation, toCopyOriginal)
    ELSE serviceInvocation

copyOriginal(serviceInvocation, toCopyOriginal) ==
  IF Len(toCopyOriginal) > 0
    THEN injectOriginal(serviceInvocation, toCopyOriginal)
    ELSE serviceInvocation

\* overrideInputsOf that keeps the original source text as the value
overrideInputsOfSourceText(toTranslateFromOverride, overrideSource) ==
  SelectSeq(toTranslateFromOverride, LAMBDA e : Truthy(Get(overrideSource, e.key)))

\* overrideInputsOf without the test for a value in the override source
overrideInputsOfAll(toTranslateFromOverride, overrideSource) ==
  [i \in DOMAIN toTranslateFromOverride |->
     Entry(toTranslateFromOverride[i].key,
           Get(overrideSource, toTranslateFromOverride[i].key))]

\* translateCore lines 254-260
overrideInputsOf(toTranslateFromOverride, overrideSource) ==
  LET picked == SelectSeq(toTranslateFromOverride,
                          LAMBDA e : Truthy(Get(overrideSource, e.key)))
  IN  [i \in DOMAIN picked |-> Entry(picked[i].key, Get(overrideSource, picked[i].key))]

\* translateCore lines 272-280
mergeOverrideResult(serviceInvocation, overrideResult) ==
  LET base == IF serviceInvocation.isNull THEN EmptyInvocation ELSE serviceInvocation
  IN  Invocation(SetAll(base.inputs, overrideResult.inputs),
                 SetAll(base.results, overrideResult.results))

\* -------------------------------------------- the translation service
\* invokeTranslationService(serviceInputs, args): the service may omit keys;
\* what it returns is a translation for some of the keys it was given
ServiceResponses(serviceInputs) ==
  {Invocation(serviceInputs,
      LET kept == SelectSeq(serviceInputs, LAMBDA e : e.key \in S)
      IN  [i \in DOMAIN kept |-> Entry(kept[i].key, Translated)])
   : S \in SUBSET KeySet(serviceInputs)}

\* -------------------------------------------------------------- inputs
Ascending(S) ==
  CHOOSE s \in [1..Cardinality(S) -> S] : \A i, j \in 1..Cardinality(S) : i < j => s[i] < s[j]
Orders(S) ==
  {s \in [1..Cardinality(S) -> S] : \A i, j \in 1..Cardinality(S) : i # j => s[i] # s[j]}
MakeTSet(order, f) == [i \in DOMAIN order |-> Entry(order[i], f[order[i]])]

SrcSets ==
  UNION {{MakeTSet(Ascending(S), f) : f \in [S -> SrcValues]} : S \in SUBSET Keys}
TargetSets ==
  UNION {UNION {{MakeTSet(o, f) : f \in [S -> OldValues]} : o \in Orders(S)}
         : S \in SUBSET Keys}
\* the override file's entries for the requested keys (the code reads no
\* others): a key is absent, present without text, or present with text
OverrideFiles(requested) ==
  UNION {{MakeTSet(Ascending(S), f) : f \in [S -> {OverrideText, Null}]}
         : S \in SUBSET KeySet(requested)}

\* the parsers' result before a comment is parsed
NotParsed == [present |-> FALSE, manual |-> <<>>, contextParts |-> <<>>, context |-> <<>>]

NoComment == [present |-> FALSE, manual |-> <<>>]
Comment(manual) == [present |-> TRUE, manual |-> manual]
ParsedComments == {NoComment, Comment(<<>>), Comment(<<"fr", "zh-Hans">>)}

\* the comments come from the source file: only its keys carry one
CommentLookups(src) ==
  {c \in [Keys -> ParsedComments] : \A k \in Keys \ KeySet(src) : c[k] = NoComment}

OtherLng(l) == IF l = "de" THEN "zh-Hans" ELSE "de"
SourceOverrides == {[l \in D |-> OtherLng(l)] : D \in {{}, {"de"}, {"zh-Hans"}}}

\* ---------------------------------------------------------------- state
VARIABLES
  args,               \* CoreArgs: src, srcLng, oldTarget, targetLng, sourceOverride
  comments,           \* getParsedComments(args.srcFile): key -> ParsedComment | undefined
  pc,                 \* the step translateCore is at
  run,                \* which consecutive run this is
  rawServiceInputs,
  filtered,
  serviceInvocation,
  overrideSource,     \* what readOverrideSource returned
  calls,              \* the calls made to invokeTranslationService, in order
  events,             \* the calls, their returns, the file read and Classify, in order
  changeSet,
  newTarget,
  extracted,          \* the comment text given to parseExtractedComment
  parsed,             \* what the parser of comment-parser.ts returned for it
  parsedCore          \* what the parser of core-definitions.ts returned for it

parserVars == <<extracted, parsed, parsedCore>>

vars == <<args, comments, pc, run, rawServiceInputs, filtered, serviceInvocation,
          overrideSource, calls, events, changeSet, newTarget, extracted, parsed,
          parsedCore>>

EmptyChangeSet == [added |-> <<>>, updated |-> <<>>, skipped |-> <<>>, deleted |-> NullRef]

Init ==
  /\ \E src \in SrcSets, targetLng \in Langs, so \in SourceOverrides :
       \E old \in {NullRef} \cup {Ref(t) : t \in TargetSets} :
         args = [src |-> src, srcLng |-> SrcLng, oldTarget |-> old,
                 targetLng |-> targetLng, sourceOverride |-> so]
  /\ comments \in CommentLookups(args.src)
  /\ pc = "Extract"
  /\ run = 1
  /\ rawServiceInputs = <<>>
  /\ filtered = EmptyFilter
  /\ serviceInvocation = NullInvocation
  /\ overrideSource = NullRef
  /\ calls = <<>>
  /\ events = <<>>
  /\ changeSet = EmptyChangeSet
  /\ newTarget = <<>>
  /\ extracted = <<>>
  /\ parsed = NotParsed
  /\ parsedCore = NotParsed

\* line 212: extractStringsToTranslate, fatal on an empty source
Extract ==
  /\ pc = "Extract"
  /\ IF Len(args.src) = 0
       THEN /\ pc' = "Fatal"
            /\ UNCHANGED rawServiceInputs
       ELSE /\ rawServiceInputs' = extractStringsToTranslate(args)
            /\ pc' = "Route"
  /\ UNCHANGED <<parserVars, args, comments, run, filtered, serviceInvocation, overrideSource,
                 calls, events, changeSet, newTarget>>

\* line 215
Route ==
  /\ pc = "Route"
  /\ filtered' = filterByManualMarking(rawServiceInputs, comments, args)
  /\ pc' = "TranslateNormal"
  /\ UNCHANGED <<parserVars, args, comments, run, rawServiceInputs, serviceInvocation,
                 overrideSource, calls, events, changeSet, newTarget>>

\* TranslateNormal without the await: the run goes on while the call is out
TranslateNormalNoAwait ==
  /\ pc = "TranslateNormal"
  /\ IF Len(filtered.toTranslate) >= 1
       THEN /\ calls' = Append(calls, [inputs |-> filtered.toTranslate,
                                       srcLng |-> args.srcLng])
            /\ events' = Append(events, "invoke normal")
       ELSE UNCHANGED <<calls, events>>
  /\ pc' = "CopyOriginal"
  /\ UNCHANGED <<parserVars, args, comments, run, rawServiceInputs, filtered,
                 serviceInvocation, overrideSource, changeSet, newTarget>>

\* lines 232-233: the normal batch is handed to the service, if not empty
TranslateNormal ==
  /\ pc = "TranslateNormal"
  /\ IF Len(filtered.toTranslate) >= 1
       THEN /\ calls' = Append(calls, [inputs |-> filtered.toTranslate,
                                       srcLng |-> args.srcLng])
            /\ events' = Append(events, "invoke normal")
            /\ pc' = "AwaitNormal"
       ELSE /\ pc' = "CopyOriginal"
            /\ UNCHANGED <<calls, events>>
  /\ UNCHANGED <<parserVars, args, comments, run, rawServiceInputs, filtered,
                 serviceInvocation, overrideSource, changeSet, newTarget>>

\* line 233: the awaited call returns and its result is the invocation
NormalReturns ==
  /\ pc = "AwaitNormal"
  /\ \E response \in ServiceResponses(calls[Len(calls)].inputs) :
       serviceInvocation' = response
  /\ events' = Append(events, "return normal")
  /\ pc' = "CopyOriginal"
  /\ UNCHANGED <<parserVars, args, comments, run, rawServiceInputs, filtered,
                 overrideSource, calls, changeSet, newTarget>>

\* lines 236-245
CopyOriginal ==
  /\ pc = "CopyOriginal"
  /\ serviceInvocation' = copyOriginal(serviceInvocation, filtered.toCopyOriginal)
  /\ pc' = "ReadOverride"
  /\ UNCHANGED <<parserVars, args, comments, run, rawServiceInputs, filtered, overrideSource,
                 calls, events, changeSet, newTarget>>

\* lines 248-251: the override file is read only for a non-empty bucket; the
\* read returns the file's mapping, or null when it cannot be read
ReadOverrideSource ==
  /\ pc = "ReadOverride"
  /\ IF /\ Len(filtered.toTranslateFromOverride) > 0
        /\ Truthy(SourceOverrideGet(args.sourceOverride, args.targetLng))
       THEN /\ \E file \in {NullRef} \cup
                         {Ref(f) : f \in OverrideFiles(filtered.toTranslateFromOverride)} :
                 overrideSource' = file
            /\ events' = Append(events, "read override")
            /\ pc' = "TranslateOverride"
       ELSE /\ pc' = "Classify"
            /\ UNCHANGED <<overrideSource, events>>
  /\ UNCHANGED <<parserVars, args, comments, run, rawServiceInputs, filtered,
                 serviceInvocation, calls, changeSet, newTarget>>

\* TranslateOverride without the fallback for an unreadable override source
TranslateOverrideNoFallback ==
  /\ pc = "TranslateOverride"
  /\ IF ~overrideSource.isNull
       THEN LET overrideInputs ==
                  overrideInputsOf(filtered.toTranslateFromOverride, overrideSource.map)
            IN  IF Len(overrideInputs) > 0
                  THEN /\ calls' = Append(calls,
                            [inputs |-> overrideInputs,
                             srcLng |-> SourceOverrideGet(args.sourceOverride,
                                                          args.targetLng)])
                       /\ events' = Append(events, "invoke override")
                       /\ pc' = "AwaitOverride"
                       /\ UNCHANGED serviceInvocation
                  ELSE /\ pc' = "Classify"
                       /\ UNCHANGED <<serviceInvocation, calls, events>>
       ELSE /\ pc' = "Classify"
            /\ UNCHANGED <<serviceInvocation, calls, events>>
  /\ UNCHANGED <<parserVars, args, comments, run, rawServiceInputs, filtered,
                 overrideSource, changeSet, newTarget>>

\* lines 252-269 and 282-291: with the override source read, the keys it has
\* text for are handed to the service, if any; without it, the bucket's
\* original text is copied
TranslateOverride ==
  /\ pc = "TranslateOverride"
  /\ IF ~overrideSource.isNull
       THEN LET overrideInputs ==
                  overrideInputsOf(filtered.toTranslateFromOverride, overrideSource.map)
            IN  IF Len(overrideInputs) > 0
                  THEN /\ calls' = Append(calls,
                            [inputs |-> overrideInputs,
                             srcLng |-> SourceOverrideGet(args.sourceOverride,
                                                          args.targetLng)])
                       /\ events' = Append(events, "invoke override")
                       /\ pc' = "AwaitOverride"
                       /\ UNCHANGED serviceInvocation
                  ELSE /\ pc' = "Classify"
                       /\ UNCHANGED <<serviceInvocation, calls, events>>
       ELSE /\ serviceInvocation' =
                 injectOriginal(serviceInvocation, filtered.toTranslateFromOverride)
            /\ pc' = "Classify"
            /\ UNCHANGED <<calls, events>>
  /\ UNCHANGED <<parserVars, args, comments, run, rawServiceInputs, filtered,
                 overrideSource, changeSet, newTarget>>

\* lines 269-280: the awaited override call returns and is merged
OverrideReturns ==
  /\ pc = "AwaitOverride"
  /\ \E overrideResult \in ServiceResponses(calls[Len(calls)].inputs) :
       serviceInvocation' = mergeOverrideResult(serviceInvocation, overrideResult)
  /\ events' = Append(events, "return override")
  /\ pc' = "Classify"
  /\ UNCHANGED <<parserVars, args, comments, run, rawServiceInputs, filtered,
                 overrideSource, calls, changeSet, newTarget>>

\* line 295
Classify ==
  /\ pc = "Classify"
  /\ changeSet' = computeChangeSet(args, serviceInvocation)
  /\ events' = Append(events, "classify")
  /\ pc' = "Reconcile"
  /\ UNCHANGED <<parserVars, args, comments, run, rawServiceInputs, filtered,
                 serviceInvocation, overrideSource, calls, newTarget>>

\* lines 296-298: computeCoreResults, then the results are returned
Reconcile ==
  /\ pc = "Reconcile"
  /\ newTarget' = computeNewTarget(args, changeSet, serviceInvocation)
  /\ pc' = "Report"
  /\ UNCHANGED <<parserVars, args, comments, run, rawServiceInputs, filtered,
                 serviceInvocation, overrideSource, calls, events, changeSet>>

Next ==
  \/ Extract
  \/ Route
  \/ TranslateNormal
  \/ NormalReturns
  \/ CopyOriginal
  \/ ReadOverrideSource
  \/ TranslateOverride
  \/ OverrideReturns
  \/ Classify
  \/ Reconcile

Spec == Init /\ [][Next]_vars

\* ------------------------------------------------- the comment parsers
\* the comments of at most MaxCommentLen tokens
InitParser ==
  /\ \E n \in 0..MaxCommentLen : extracted \in [1..n -> Tokens]
  /\ parsed = NotParsed
  /\ parsedCore = NotParsed
  /\ pc = "Parse"
  /\ args = [src |-> <<>>, srcLng |-> SrcLng, oldTarget |-> NullRef,
             targetLng |-> "de", sourceOverride |-> <<>>]
  /\ comments = [k \in Keys |-> NoComment]
  /\ run = 1
  /\ rawServiceInputs = <<>>
  /\ filtered = EmptyFilter
  /\ serviceInvocation = NullInvocation
  /\ overrideSource = NullRef
  /\ calls = <<>>
  /\ events = <<>>
  /\ changeSet = EmptyChangeSet
  /\ newTarget = <<>>

pipelineVars == <<args, comments, run, rawServiceInputs, filtered, serviceInvocation,
                  overrideSource, calls, events, changeSet, newTarget>>

\* comment-parser.ts, parseExtractedComment
ParseComment ==
  /\ pc = "Parse"
  /\ parsed' = parseExtractedComment(extracted)
  /\ parsedCore' = parseExtractedCommentCore(extracted)
  /\ pc' = "Parsed"
  /\ UNCHANGED <<pipelineVars, extracted>>

NextParser ==
  \/ ParseComment

SpecParser == InitParser /\ [][NextParser]_vars

\* A following run over the same source, comments, target language and
\* override table, with the reported newTarget as its previous target
Rerun ==
  /\ pc = "Report"
  /\ run < MaxRuns
  /\ args' = [args EXCEPT !.oldTarget = Ref(newTarget)]
  /\ run' = run + 1
  /\ pc' = "Extract"
  /\ rawServiceInputs' = <<>>
  /\ filtered' = EmptyFilter
  /\ serviceInvocation' = NullInvocation
  /\ overrideSource' = NullRef
  /\ calls' = <<>>
  /\ events' = <<>>
  /\ changeSet' = EmptyChangeSet
  /\ newTarget' = <<>>
  /\ UNCHANGED <<parserVars, comments>>

NextRerun ==
  \/ Next
  \/ Rerun

SpecRerun == Init /\ [][NextRerun]_vars

\* ====================================================================
\* Properties
\* ====================================================================
Range(seq) == {seq[i] : i \in DOMAIN seq}
BucketNames == {"toTranslate", "toSkip", "toCopyOriginal", "toTranslateFromOverride"}
Routed == pc \notin {"Extract", "Route", "Fatal"}
Classified == pc \in {"Reconcile", "Report"}
\* the keys handed to the translation service so far
SentKeys == UNION {KeySet(calls[i].inputs) : i \in DOMAIN calls}

\* the decision table of the manual routing, from the annotation, the target
\* language and the override table
ManualList(k) == IF comments[k].present THEN Range(comments[k].manual) ELSE {}
TableBucket(k) ==
  CASE ManualList(k) = {} -> "toTranslate"
    [] ManualList(k) # {} /\ args.targetLng \in ManualList(k) -> "toSkip"
    [] ManualList(k) # {} /\ args.targetLng \notin ManualList(k)
         /\ args.targetLng \in DOMAIN args.sourceOverride -> "toTranslateFromOverride"
    [] ManualList(k) # {} /\ args.targetLng \notin ManualList(k)
         /\ args.targetLng \notin DOMAIN args.sourceOverride -> "toCopyOriginal"

\* C1: once the candidates are routed, every candidate key is in exactly one
\* of the four buckets, the buckets' union is the candidate set, and the
\* bucket of a key is the one the decision table gives.
C1_ManualExclusivity ==
  Routed =>
    /\ \A k \in KeySet(rawServiceInputs) :
         {b \in BucketNames : Has(filtered[b], k)} = {TableBucket(k)}
    /\ UNION {KeySet(filtered[b]) : b \in BucketNames} = KeySet(rawServiceInputs)

C1_Witness ==
  /\ pc = "TranslateNormal"
  /\ Len(filtered.toTranslate) > 0
  /\ Len(filtered.toTranslateFromOverride) > 0

\* a source key the previous target already translates
Translated_Before(k) ==
  /\ ~args.oldTarget.isNull
  /\ Has(args.src, k)
  /\ Get(args.oldTarget.map, k) \notin {Undefined, Null}

\* C2: a source key with a non-null value in the previous target is in no
\* routing bucket, is never sent to the service nor put into the
\* invocation's inputs, and keeps its previous value in newTarget.
C2_NoClobber ==
  \A k \in Keys : Translated_Before(k) =>
    /\ \A b \in BucketNames : ~Has(filtered[b], k)
    /\ k \notin SentKeys
    /\ ~Has(serviceInvocation.inputs, k)
    /\ pc = "Report" => Get(newTarget, k) = Get(args.oldTarget.map, k)

C2_Witness ==
  /\ pc = "Report"
  /\ \E k \in Keys : Translated_Before(k)
  /\ Len(changeSet.added) > 0

\* a key of the override bucket for which the override source, though read,
\* holds no text
OverrideLacks(k) ==
  /\ Has(filtered.toTranslateFromOverride, k)
  /\ ~overrideSource.isNull
  /\ ~Truthy(Get(overrideSource.map, k))

C4_SourceOrder ==
  pc = "Report" =>
    KeySeq(newTarget) = KeySeq(SelectSeq(args.src, LAMBDA e : Has(newTarget, e.key)))

\* C5, for second runs that hand nothing to the translation service (so that
\* no answer of the service plays a part): in a run whose previous target is
\* the preceding run's newTarget, added and updated are empty and newTarget
\* is the previous target, in keys, values and order.
C5_Idempotent ==
  (run > 1 /\ pc = "Report" /\ calls = <<>>) =>
    /\ changeSet.added = <<>>
    /\ changeSet.updated = <<>>
    /\ newTarget = args.oldTarget.map

\* C6: the candidates are the whole source when there is no previous target;
\* otherwise they are the source entries whose key the previous target lacks
\* or holds with a null value, with the source's values, in source order.
C6_Candidates ==
  pc \notin {"Extract", "Fatal"} =>
    IF args.oldTarget.isNull
      THEN rawServiceInputs = args.src
      ELSE rawServiceInputs =
             SelectSeq(args.src, LAMBDA e :
               \A i \in DOMAIN args.oldTarget.map :
                 args.oldTarget.map[i].key = e.key => args.oldTarget.map[i].val = Null)

C6_Witness ==
  /\ pc = "Route"
  /\ ~args.oldTarget.isNull
  /\ \E k \in Keys : Has(rawServiceInputs, k) /\ Get(args.oldTarget.map, k) = Null
  /\ \E k \in Keys : Has(args.src, k) /\ ~Has(rawServiceInputs, k)

\* the entries of m whose key satisfies the test, in m's order
EntriesWhere(m, Test(_)) == SelectSeq(m, LAMBDA e : Test(e.key))

\* C7: once classified, with no previous target added is all of the
\* results and updated is empty; with a previous target added is the results
\* whose key the previous target lacks and updated is the results whose key
\* the previous target holds with a different value; added and updated share
\* no key and a result equal to the previous value is in neither.
C7_AddedUpdated ==
  Classified =>
    LET results == IF serviceInvocation.isNull THEN <<>> ELSE serviceInvocation.results
        old == args.oldTarget.map
    IN  /\ args.oldTarget.isNull =>
             changeSet.added = results /\ changeSet.updated = <<>>
        /\ ~args.oldTarget.isNull =>
             /\ changeSet.added = EntriesWhere(results, LAMBDA k : ~Has(old, k))
             /\ changeSet.updated =
                  EntriesWhere(results, LAMBDA k :
                    Has(old, k) /\ Get(old, k) # Get(results, k))
             /\ \A k \in KeySet(results) :
                  (Has(old, k) /\ Get(old, k) = Get(results, k)) =>
                    ~Has(changeSet.added, k) /\ ~Has(changeSet.updated, k)
        /\ KeySet(changeSet.added) \cap KeySet(changeSet.updated) = {}

C7_Witness ==
  /\ Classified
  /\ ~args.oldTarget.isNull
  /\ Len(changeSet.updated) > 0
  /\ \E k \in KeySet(serviceInvocation.results) :
       ~Has(changeSet.added, k) /\ ~Has(changeSet.updated, k)

\* C8: once classified, deleted is null when there is no previous target;
\* otherwise it is the previous target's entries whose key the source lacks,
\* whether or not anything was invoked.
C8_Deleted ==
  Classified =>
    IF args.oldTarget.isNull
      THEN changeSet.deleted.isNull
      ELSE /\ ~changeSet.deleted.isNull
           /\ changeSet.deleted.map =
                EntriesWhere(args.oldTarget.map, LAMBDA k : ~Has(args.src, k))

C8_Witness ==
  /\ Classified
  /\ serviceInvocation.isNull
  /\ ~changeSet.deleted.isNull
  /\ Len(changeSet.deleted.map) > 0
  /\ Len(changeSet.deleted.map) < Len(args.oldTarget.map)

\* C9: at Report every key routed to toCopyOriginal is in the invocation's
\* inputs and results with its source value, was never sent to the service,
\* has its source value in newTarget, and is in added / updated by the rule
\* for any result.
C9_CopyOriginal ==
  pc = "Report" =>
    \A i \in DOMAIN filtered.toCopyOriginal :
      LET k == filtered.toCopyOriginal[i].key
          v == Get(args.src, k)
          old == args.oldTarget.map
      IN  /\ ~serviceInvocation.isNull
          /\ Get(serviceInvocation.inputs, k) = v
          /\ Get(serviceInvocation.results, k) = v
          /\ k \notin SentKeys
          /\ Get(newTarget, k) = v
          /\ Has(changeSet.added, k) <=> (args.oldTarget.isNull \/ ~Has(old, k))
          /\ Has(changeSet.updated, k) <=>
               (~args.oldTarget.isNull /\ Has(old, k) /\ Get(old, k) # v)
          /\ Has(changeSet.added, k) => Get(changeSet.added, k) = v
          /\ Has(changeSet.updated, k) => Get(changeSet.updated, k) = v

C9_Witness ==
  /\ pc = "Report"
  /\ Len(filtered.toCopyOriginal) > 0
  /\ Len(calls) > 0
  /\ \E k \in KeySet(filtered.toCopyOriginal) : Get(newTarget, k) = SrcText

\* C10 as stated: at Report no key routed to toSkip is in newTarget.
C10_SkippedAbsent ==
  pc = "Report" =>
    \A k \in KeySet(filtered.toSkip) : ~Has(newTarget, k)

\* C10 as amended: at Report a key routed to toSkip is in newTarget exactly
\* when the previous target had an entry for it, and then with the null
\* value that entry had; it is never given a value by the run.
C10_SkippedKeepsNull ==
  pc = "Report" =>
    \A k \in KeySet(filtered.toSkip) :
      /\ Has(newTarget, k) <=> (~args.oldTarget.isNull /\ Has(args.oldTarget.map, k))
      /\ Has(newTarget, k) =>
           Get(newTarget, k) = Null /\ Get(args.oldTarget.map, k) = Null
      /\ ~Has(serviceInvocation.results, k)

C10_Witness ==
  /\ pc = "Report"
  /\ \E k \in KeySet(filtered.toSkip) : Has(newTarget, k)
  /\ \E k \in KeySet(filtered.toSkip) : ~Has(newTarget, k)

\* the override language configured for the target language
OverrideLng == SourceOverrideGet(args.sourceOverride, args.targetLng)
\* the calls that declare the override language as their source language
OverrideCalls == {i \in DOMAIN calls : calls[i].srcLng = OverrideLng}
\* the override source was read and is there
OverrideRead ==
  /\ pc \in {"Classify", "Reconcile", "Report"}
  /\ Len(filtered.toTranslateFromOverride) > 0
  /\ ~overrideSource.isNull
\* the read of the override source failed
OverrideUnreadable ==
  /\ pc \in {"Classify", "Reconcile", "Report"}
  /\ Len(filtered.toTranslateFromOverride) > 0
  /\ overrideSource.isNull
\* the bucket keys the override source has text for
OverrideKnown ==
  {k \in KeySet(filtered.toTranslateFromOverride) :
     \E i \in DOMAIN overrideSource.map :
       /\ overrideSource.map[i].key = k
       /\ overrideSource.map[i].val \notin {Null, ""}}
\* the rule that puts a result into added / updated
ClassifiedAsResult(k) ==
  LET v == Get(serviceInvocation.results, k)
      old == args.oldTarget.map
  IN  /\ Has(changeSet.added, k) <=> (args.oldTarget.isNull \/ ~Has(old, k))
      /\ Has(changeSet.updated, k) <=>
           (~args.oldTarget.isNull /\ Has(old, k) /\ Get(old, k) # v)
      /\ Has(changeSet.added, k) => Get(changeSet.added, k) = v
      /\ Has(changeSet.updated, k) => Get(changeSet.updated, k) = v

\* C11: with a non-empty override bucket and a readable override source, the
\* service is called for exactly the bucket keys the override source has text
\* for, with that text as value and the override language as source language
\* (and not at all when there is no such key); the call's inputs and results
\* are in the invocation, and at Report each result is classified like any
\* other and is the key's value in newTarget.
C11_OverrideTranslation ==
  OverrideRead =>
    /\ OverrideKnown = {} => OverrideCalls = {}
    /\ OverrideKnown # {} =>
         /\ Cardinality(OverrideCalls) = 1
         /\ \A i \in OverrideCalls :
              /\ KeySet(calls[i].inputs) = OverrideKnown
              /\ \A k \in OverrideKnown :
                   Get(calls[i].inputs, k) = Get(overrideSource.map, k)
         /\ \A i \in DOMAIN calls \ OverrideCalls :
              KeySet(calls[i].inputs) \cap KeySet(filtered.toTranslateFromOverride) = {}
         /\ \A k \in OverrideKnown :
              /\ Get(serviceInvocation.inputs, k) = Get(overrideSource.map, k)
              /\ (pc = "Report" /\ Has(serviceInvocation.results, k)) =>
                   /\ Get(serviceInvocation.results, k) = Translated
                   /\ ClassifiedAsResult(k)
                   /\ Get(newTarget, k) = Get(serviceInvocation.results, k)

C11_Witness ==
  /\ pc = "Report"
  /\ OverrideRead
  /\ Len(calls) = 2
  /\ \E k \in OverrideKnown : Has(changeSet.updated, k)

\* C14: when the read of the override source fails for a non-empty override
\* bucket, the run is not aborted, no call declares the override language,
\* and every key of the bucket is in the invocation's inputs and results with
\* its original source value.
C14_OverrideFallback ==
  OverrideUnreadable =>
    /\ pc # "Fatal"
    /\ OverrideCalls = {}
    /\ ~serviceInvocation.isNull
    /\ \A k \in KeySet(filtered.toTranslateFromOverride) :
         /\ Get(serviceInvocation.inputs, k) = Get(args.src, k)
         /\ Get(serviceInvocation.results, k) = Get(args.src, k)

C14_Witness ==
  /\ pc = "Report"
  /\ OverrideUnreadable
  /\ \E k \in KeySet(filtered.toTranslateFromOverride) : Get(newTarget, k) = SrcText

\* C15: a key of the override bucket for which the readable override source
\* has no value is never sent and is in none of inputs, results, added,
\* updated and skipped; when no key of the bucket has a value, no call
\* declares the override language.
C15_OverrideMissingKey ==
  /\ \A k \in Keys : OverrideLacks(k) /\ OverrideRead =>
       /\ k \notin SentKeys
       /\ ~Has(serviceInvocation.inputs, k)
       /\ ~Has(serviceInvocation.results, k)
       /\ ~Has(changeSet.added, k)
       /\ ~Has(changeSet.updated, k)
       /\ ~Has(changeSet.skipped, k)
  /\ (OverrideRead
        /\ \A k \in KeySet(filtered.toTranslateFromOverride) : OverrideLacks(k))
       => OverrideCalls = {}

C15_Witness ==
  /\ pc = "Report"
  /\ OverrideRead
  /\ \E k \in Keys : OverrideLacks(k) /\ Get(overrideSource.map, k) = Null
  /\ OverrideCalls # {}

\* C17: at Report every key of newTarget is a key of the source, and no key
\* of changeSet.deleted is in newTarget.
C17_StalePruned ==
  pc = "Report" =>
    /\ KeySet(newTarget) \subseteq KeySet(args.src)
    /\ ~changeSet.deleted.isNull =>
         KeySet(changeSet.deleted.map) \cap KeySet(newTarget) = {}

C17_Witness ==
  /\ pc = "Report"
  /\ serviceInvocation.isNull
  /\ ~changeSet.deleted.isNull
  /\ Len(changeSet.deleted.map) > 0
  /\ Len(newTarget) > 0

\* the positions of an event in the log
At(e) == {i \in DOMAIN events : events[i] = e}
\* every call of the kind issued before position i has returned before i
ReturnedBefore(kind, i) ==
  \A j \in At("invoke " \o kind) :
    j < i => \E r \in At("return " \o kind) : j < r /\ r < i

\* C16: in one run the service is called at most once for toTranslate and at
\* most once for the override batch, never with an empty batch; the normal
\* call has returned before the override source is read and before the
\* override call is issued, and Classify starts only after every call has
\* returned.
C16_InvocationOrder ==
  /\ Cardinality(At("invoke normal")) <= 1
  /\ Cardinality(At("invoke override")) <= 1
  /\ Len(calls) = Cardinality(At("invoke normal")) + Cardinality(At("invoke override"))
  /\ \A i \in DOMAIN calls : Len(calls[i].inputs) > 0
  /\ \A i \in At("read override") \cup At("invoke override") :
       ReturnedBefore("normal", i)
  /\ \A i \in At("classify") :
       ReturnedBefore("normal", i) /\ ReturnedBefore("override", i)

C16_Witness ==
  /\ pc = "Report"
  /\ events = <<"invoke normal", "return normal", "read override",
                "invoke override", "return override", "classify">>

\* the fragments each parser looks at
LineFragments == TrimmedLines(extracted)
CoreFragments == PartsOfLines(Split(extracted, "\n"))
\* the @manual: fragments, and those with something after the prefix
ManualAt(frags) == {i \in DOMAIN frags : StartsWith(frags[i], "@manual:")}
NonEmptyManualAt(frags) == {i \in ManualAt(frags) : Trim(Tail(frags[i])) # <<>>}
\* the comma-split, trimmed remainder of the last fragment among those at
LastList(frags, at) ==
  IF at = {} THEN <<>>
  ELSE LangList(Trim(Tail(frags[CHOOSE i \in at : \A j \in at : j <= i])))

\* C12 as stated: the manual list is the comma-split, trimmed remainder of
\* the last @manual: fragment of the comment, an empty remainder included.
C12_LastManualWins ==
  pc = "Parsed" =>
    /\ parsed.manual = LastList(LineFragments, ManualAt(LineFragments))
    /\ parsedCore.manual = LastList(CoreFragments, ManualAt(CoreFragments))

\* C12 as amended: the manual list is the comma-split, trimmed remainder
\* (empty items dropped) of the last @manual: fragment that has a non-empty
\* remainder; a @manual: fragment with an empty remainder changes nothing.
C12_LastNonEmptyManualWins ==
  pc = "Parsed" =>
    /\ parsed.manual = LastList(LineFragments, NonEmptyManualAt(LineFragments))
    /\ parsedCore.manual = LastList(CoreFragments, NonEmptyManualAt(CoreFragments))

C12_Witness ==
  /\ pc = "Parsed"
  /\ Cardinality(NonEmptyManualAt(LineFragments)) = 2
  /\ parsed.manual = << <<"b">> >>
  /\ parsedCore.manual = << <<"b">> >>

\* the comment with every ";" replaced by a line break
OnSeparateLines == [i \in DOMAIN extracted |-> IF extracted[i] = ";" THEN "\n" ELSE extracted[i]]

\* C13: the parser of comment-parser.ts returns the same manual list and the
\* same context fragments for a comment as for the comment with its ";"
\* replaced by line breaks.
C13_SemicolonAsNewline ==
  pc = "Parsed" =>
    /\ parsed.manual = parseExtractedComment(OnSeparateLines).manual
    /\ parsed.contextParts = parseExtractedComment(OnSeparateLines).contextParts

====
